---- MODULE Spec2Model ----
(***************************************************************************)
(* Model of core/finder/finder.py: the public operations find, find_all,   *)
(* verify, exists, wait_vanish and highlight, evaluated against a screen   *)
(* whose content changes over poll ticks.  Every operation is synchronous: *)
(* one action is one whole call.  The record `last` holds the arguments of *)
(* the most recent call, its outcome (return value or raised error) and    *)
(* the ordered trace of the collaborator calls it made.                    *)
(***************************************************************************)
EXTENDS Integers, Sequences, FiniteSets, TLC

\* ---- bounds of the model ----
MaxLoc == 2        \* locations a pattern can match at are 1..MaxLoc
MaxTicks == 2      \* poll ticks over which the screen content is described
MaxTimeout == 2    \* caller-chosen timeouts are 1..MaxTimeout ticks

\* ---- program constants ----
auto_wait_timeout == 2     \* Settings.auto_wait_timeout, in poll ticks
highlight_duration == 2    \* Settings.highlight_duration, in seconds
NoneArg == 0               \* an omitted numeric argument (timeout=None, seconds=None)

VARIABLES screen, highlightOn, last
vars == <<screen, highlightOn, last>>

\* ---- Python values ----
NoneV == [tag |-> "None", items |-> <<>>]
TrueV == [tag |-> "bool", items |-> <<1>>]
FalseV == [tag |-> "bool", items |-> <<0>>]
LocationV(n) == [tag |-> "Location", items |-> <<n>>]
ListV(s) == [tag |-> "list", items |-> s]
RectangleV(w) == [tag |-> "Rectangle", items |-> <<w>>]

PatternV(f) == [type |-> "Pattern", name |-> f]
StrV(s) == [type |-> "str", name |-> s]
OtherV == [type |-> "int", name |-> "42"]
NonePs == [type |-> "NoneType", name |-> ""]

Filenames == {"button.png", "icon.png"}
Patterns == {PatternV(f) : f \in Filenames}
Targets == Patterns \cup {StrV("OK"), OtherV}
Regions == {NoneV, RectangleV(1)}
Timeouts == {NoneArg} \cup (1..MaxTimeout)
Faults == {"none", "search", "highlighter"}

\* ---- outcomes and collaborator-call events ----
Ev(call, mode, arg, ret) == [call |-> call, mode |-> mode, arg |-> arg, ret |-> ret]
Return(val, trace) == [kind |-> "return", val |-> val, err |-> "", msg |-> <<>>, trace |-> trace]
Raise(err, msg, trace) == [kind |-> "raise", val |-> NoneV, err |-> err, msg |-> msg, trace |-> trace]
WithTrace(pre, r) == [r EXCEPT !.trace = pre \o @]
Fmt_noarg(template, arg) == <<template>>

Fmt(template, arg) == <<template, arg>>
FindError(template, arg, trace) == Raise("FindError", Fmt(template, arg), trace)

\* ---- the screen ----
Locs == 1..MaxLoc
Orders == {s \in UNION {[1..n -> Locs] : n \in 1..MaxLoc} :
             \A i, j \in DOMAIN s : i # j => s[i] # s[j]}
Range(s) == {s[i] : i \in DOMAIN s}
Screens == {sc \in [shown : Filenames, bestFirst : Orders, scanOrder : Orders,
                    present : [1..MaxTicks -> BOOLEAN], textFrom : 1..(MaxTicks + 1)] :
              Range(sc.bestFirst) = Range(sc.scanOrder)}

\* what one change of the screen content can do: a pattern appears or disappears
\* at a tick, the text appears at another tick, another image is shown, or the
\* matches of the shown image move
ScreenChanges(scr) ==
  {[scr EXCEPT !.present[t] = ~@] : t \in 1..MaxTicks}
    \cup {[scr EXCEPT !.textFrom = k] : k \in 1..(MaxTicks + 1)}
    \cup {[scr EXCEPT !.shown = f] : f \in Filenames}
    \cup {[scr EXCEPT !.bestFirst = o[1], !.scanOrder = o[2]] :
            o \in {q \in Orders \X Orders : Range(q[1]) = Range(q[2])}}

InRegion(n, region) == region = NoneV \/ n <= region.items[1]
PresentAt(scr, tick) == scr.present[IF tick > MaxTicks THEN MaxTicks ELSE tick]

\* one matching pass over the screen content of poll tick `tick`
match_at(ps, region, type, scr, tick) ==
  IF ps.name = scr.shown /\ PresentAt(scr, tick)
  THEN SelectSeq(IF type = "SINGLE" THEN scr.bestFirst ELSE scr.scanOrder,
                 LAMBDA n : InRegion(n, region))
  ELSE <<>>

match_template(ps, region, type, scr) == match_at(ps, region, type, scr, 1)

image_find(ps, timeout, region, scr) ==
  LET hits == {t \in 1..timeout : match_at(ps, region, "SINGLE", scr, t) # <<>>}
      first == CHOOSE t \in hits : \A u \in hits : t <= u
  IN IF hits = {} THEN NoneV
     ELSE LocationV(match_at(ps, region, "SINGLE", scr, first)[1])

image_vanish(ps, timeout, region, scr) ==
  IF \E t \in 1..timeout : match_at(ps, region, "SINGLE", scr, t) = <<>>
  THEN TrueV ELSE NoneV

text_search(text, wait, region, scr) ==
  IF \E t \in 1..(IF wait THEN auto_wait_timeout ELSE 1) : t >= scr.textFrom
  THEN LocationV(1) ELSE NoneV

CollabError(call, mode, arg) ==
  Raise("RuntimeError", <<call>>, <<Ev(call, mode, arg, NoneV)>>)

\* ---- finder.py ----
render_only(secs) == <<Ev("render", "", secs, NoneV)>>

render_and_sleep(secs) == <<Ev("render", "", secs, NoneV), Ev("sleep", "", secs, NoneV)>>

highlight(region, seconds, pattern, location, fault) ==
  LET secs == IF seconds = NoneArg THEN highlight_duration ELSE seconds
      t0 == <<Ev("ScreenHighlight", "", 0, NoneV)>>
      t1 == IF region # NoneV
            THEN t0 \o <<Ev("draw_rectangle", "Region", region.items[1], NoneV)>>
            ELSE t0
  IN IF pattern # NonePs /\ location.tag # "list"
     THEN Raise("TypeError", <<"object is not iterable">>, t1)
     ELSE LET t2 == IF pattern # NonePs
                    THEN t1 \o [i \in 1..Len(location.items) |->
                                  Ev("draw_rectangle", "Location", location.items[i], NoneV)]
                    ELSE t1
          IN IF fault = "highlighter"
             THEN WithTrace(t2, CollabError("render", "", secs))
             ELSE Return(NoneV, t2 \o render_and_sleep(secs))

find_no_pattern_raises == Raise("ValueError", <<"Invalid input">>, <<>>)

find_no_pattern == Return(NoneV, <<>>)

find_found_last(image_found) == LocationV(image_found[Len(image_found)])

find_found(image_found) == LocationV(image_found[1])

find(ps, region, scr, hl, fault) ==
  IF ps.type = "Pattern"
  THEN IF fault = "search" THEN CollabError("match_template", "SINGLE", 0)
       ELSE LET image_found == match_template(ps, region, "SINGLE", scr)
                t == <<Ev("match_template", "SINGLE", 0, ListV(image_found))>>
            IN IF Len(image_found) > 0
               THEN IF hl
                    THEN LET h == highlight(region, NoneArg, ps, ListV(image_found), fault)
                         IN IF h.kind = "raise" THEN WithTrace(t, h)
                            ELSE Return(find_found(image_found), t \o h.trace)
                    ELSE Return(find_found(image_found), t)
               ELSE FindError("Unable to find image %s", ps.name, t)
  ELSE find_no_pattern

find_all(pattern, region, scr, hl, fault) ==
  IF fault = "search" THEN CollabError("match_template", "MULTIPLE", 0)
  ELSE LET images_found == match_template(pattern, region, "MULTIPLE", scr)
           t == <<Ev("match_template", "MULTIPLE", 0, ListV(images_found))>>
       IN IF Len(images_found) > 0
          THEN IF hl
               THEN LET h == highlight(region, NoneArg, pattern, ListV(images_found), fault)
                    IN IF h.kind = "raise" THEN WithTrace(t, h)
                       ELSE Return(ListV(images_found), t \o h.trace)
               ELSE Return(ListV(images_found), t)
          ELSE FindError("Unable to find image %s", pattern.name, t)

verify_invalid_finderror == Raise("FindError", <<"Invalid input">>, <<>>)

verify_invalid == Raise("ValueError", <<"Invalid input">>, <<>>)

verify(ps, timeout, region, scr, hl, fault) ==
  IF ps.type = "Pattern"
  THEN LET tmo == IF timeout = NoneArg THEN auto_wait_timeout ELSE timeout
       IN IF fault = "search" THEN CollabError("image_find", "", tmo)
          ELSE LET image_found == image_find(ps, tmo, region, scr)
                   t == <<Ev("image_find", "", tmo, image_found)>>
               IN IF image_found # NoneV
                  THEN IF hl
                       THEN LET h == highlight(region, NoneArg, ps, image_found, fault)
                            IN IF h.kind = "raise" THEN WithTrace(t, h)
                               ELSE Return(TrueV, t \o h.trace)
                       ELSE Return(TrueV, t)
                  ELSE FindError("Unable to find image %s", ps.name, t)
  ELSE IF ps.type = "str"
  THEN IF fault = "search" THEN CollabError("text_search", "", NoneArg)
       ELSE LET a_match == text_search(ps.name, TRUE, region, scr)
                t == <<Ev("text_search", "", NoneArg, a_match)>>
            IN IF a_match # NoneV THEN Return(TrueV, t)
               ELSE FindError("Unable to find text %s", ps.name, t)
  ELSE verify_invalid

exists_except_all(r) == Return(FalseV, r.trace)

exists_except(r) == IF r.err = "FindError" THEN Return(FalseV, r.trace) ELSE r

exists(ps, timeout, region, scr, hl, fault) ==
  LET tmo == IF timeout = NoneArg THEN auto_wait_timeout ELSE timeout
      r == verify(ps, tmo, region, scr, hl, fault)
  IN IF r.kind = "raise" THEN exists_except(r) ELSE Return(TrueV, r.trace)

wait_vanish_result_inverted(image_found, pattern, t) ==
  IF image_found = NoneV THEN Return(TrueV, t)
  ELSE FindError("%s did not vanish", pattern.name, t)

wait_vanish_result(image_found, pattern, t) ==
  IF image_found # NoneV THEN Return(TrueV, t)
  ELSE FindError("%s did not vanish", pattern.name, t)

wait_vanish(pattern, timeout, region, scr, fault) ==
  LET tmo == IF timeout = NoneArg THEN auto_wait_timeout ELSE timeout
  IN IF fault = "search" THEN CollabError("image_vanish", "", tmo)
     ELSE LET image_found == image_vanish(pattern, tmo, region, scr)
          IN wait_vanish_result(image_found, pattern,
                                <<Ev("image_vanish", "", tmo, image_found)>>)

\* ---- state machine ----
Call(op, ps, timeout, region, fault, res) ==
  [op |-> op, ps |-> ps, timeout |-> timeout, region |-> region, fault |-> fault, res |-> res]
Idle == Call("none", NonePs, NoneArg, NoneV, "none", Return(NoneV, <<>>))

Init ==
  /\ screen \in Screens
  /\ highlightOn \in BOOLEAN
  /\ last = Idle

Find ==
  /\ last = Idle
  /\ \E ps \in Targets, region \in Regions, fault \in Faults :
    /\ last' = Call("find", ps, NoneArg, region, fault,
                    find(ps, region, screen, highlightOn, fault))
    /\ UNCHANGED <<screen, highlightOn>>

FindAll ==
  /\ last = Idle
  /\ \E ps \in Patterns, region \in Regions, fault \in Faults :
    /\ last' = Call("find_all", ps, NoneArg, region, fault,
                    find_all(ps, region, screen, highlightOn, fault))
    /\ UNCHANGED <<screen, highlightOn>>

Verify ==
  /\ last = Idle
  /\ \E ps \in Targets, timeout \in Timeouts, region \in Regions, fault \in Faults :
    /\ last' = Call("verify", ps, timeout, region, fault,
                    verify(ps, timeout, region, screen, highlightOn, fault))
    /\ UNCHANGED <<screen, highlightOn>>

Exists ==
  /\ last = Idle
  /\ \E ps \in Targets, timeout \in Timeouts, region \in Regions, fault \in Faults :
    /\ last' = Call("exists", ps, timeout, region, fault,
                    exists(ps, timeout, region, screen, highlightOn, fault))
    /\ UNCHANGED <<screen, highlightOn>>

WaitVanish ==
  /\ last = Idle
  /\ \E ps \in Patterns, timeout \in Timeouts, region \in Regions, fault \in Faults :
    /\ last' = Call("wait_vanish", ps, timeout, region, fault,
                    wait_vanish(ps, timeout, region, screen, fault))
    /\ UNCHANGED <<screen, highlightOn>>

Highlight ==
  /\ last = Idle
  /\ \E region \in Regions, fault \in Faults :
    /\ last' = Call("highlight", NonePs, NoneArg, region, fault,
                    highlight(region, NoneArg, NonePs, NoneV, fault))
    /\ UNCHANGED <<screen, highlightOn>>

\* the caller receives the outcome; the single thread is free for the next call
Returned ==
  /\ last # Idle
  /\ last' = Idle
  /\ UNCHANGED <<screen, highlightOn>>

\* the environment between calls: the screen content changes, the --highlight
\* flag of the command line is set or cleared
ScreenChange ==
  /\ last = Idle
  /\ screen' \in ScreenChanges(screen) \ {screen}
  /\ UNCHANGED <<highlightOn, last>>

SetHighlight ==
  /\ last = Idle
  /\ highlightOn' = ~highlightOn
  /\ UNCHANGED <<screen, last>>

Next ==
  \/ Find
  \/ FindAll
  \/ Verify
  \/ Exists
  \/ WaitVanish
  \/ Highlight
  \/ Returned
  \/ ScreenChange
  \/ SetHighlight

Spec == Init /\ [][Next]_vars

TypeOK ==
  /\ screen \in Screens
  /\ highlightOn \in BOOLEAN
  /\ last.op \in {"none", "find", "find_all", "verify", "exists", "wait_vanish", "highlight"}
  /\ last.res.kind \in {"return", "raise"}

\* ---- observations on the most recent call ----
res == last.res
Events(call) == SelectSeq(res.trace, LAMBDA e : e.call = call)
Blocking == SelectSeq(res.trace, LAMBDA e : e.call \in {"image_find", "image_vanish", "text_search"})
Drawn == SelectSeq(res.trace, LAMBDA e : e.call = "draw_rectangle" /\ e.mode = "Location")
Effective(timeout) == IF timeout = NoneArg THEN auto_wait_timeout ELSE timeout
\* the timeout that bounds a blocking call: the one it was passed, and for the
\* text search, which is passed none, the process-wide default
Governing(e) == IF e.call = "text_search" THEN auto_wait_timeout ELSE e.arg
RaisedFindError(r) == r.kind = "raise" /\ r.err = "FindError"
Names(r, ps) == \E i \in DOMAIN r.msg : r.msg[i] = ps.name
ValidTarget == last.ps.type \in {"Pattern", "str"}

\* C1: when the one-shot matcher pass of find or find_all on a Pattern returns
\* zero matches, the call raises FindError whose message names the pattern's
\* file; it does not return a value.
C1_NotFoundNamesPattern ==
  (/\ last.op \in {"find", "find_all"}
   /\ last.ps.type = "Pattern"
   /\ \E i \in DOMAIN res.trace :
        res.trace[i].call = "match_template" /\ res.trace[i].ret = ListV(<<>>))
  => RaisedFindError(res) /\ Names(res, last.ps)

C1_Witness ==
  /\ last.op = "find_all"
  /\ last.ps.name = "button.png"
  /\ screen.shown = "button.png"
  /\ Len(Events("match_template")) = 1
  /\ RaisedFindError(res)

\* C2 (as claimed): for a Pattern or text target, exists never raises
\* FindError, returns False exactly when verify with the same arguments on the
\* same screen behaviour raises FindError, and returns True in every other case.
C2_ExistsMirrorsVerify ==
  (last.op = "exists" /\ ValidTarget /\ last.fault = "none")
  => LET v == verify(last.ps, last.timeout, last.region, screen, highlightOn, "none")
     IN /\ ~RaisedFindError(res)
        /\ (res.kind = "return" /\ res.val = FalseV) <=> RaisedFindError(v)
        /\ ~RaisedFindError(v) => (res.kind = "return" /\ res.val = TrueV)

\* C3: verify on a target that is neither a Pattern nor a str raises ValueError,
\* not FindError, without calling the matcher, the text search or the
\* highlighter; exists on such a target raises the same ValueError instead of
\* returning False.
C3_InvalidTargetRaisesValueError ==
  (last.op \in {"verify", "exists"} /\ ~ValidTarget)
  => /\ res.kind = "raise"
     /\ res.err = "ValueError"
     /\ res.trace = <<>>

C3_Witness ==
  /\ last.op = "exists"
  /\ last.ps = OtherV
  /\ res.kind = "raise"
  /\ res.err = "ValueError"

\* C4: wait_vanish returns True exactly when the vanish poll, run with the
\* caller's timeout (the default one when omitted), reports the pattern absent
\* within that timeout; otherwise it raises FindError naming the pattern.
C4_WaitVanishIffPollSucceeds ==
  (last.op = "wait_vanish" /\ last.fault = "none")
  => LET poll == image_vanish(last.ps, Effective(last.timeout), last.region, screen)
     IN /\ (res.kind = "return" /\ res.val = TrueV) <=> poll # NoneV
        /\ poll = NoneV => (RaisedFindError(res) /\ Names(res, last.ps))
        /\ res.trace = <<Ev("image_vanish", "", Effective(last.timeout), poll)>>

C4_Witness ==
  /\ last.op = "wait_vanish"
  /\ last.timeout = 2
  /\ last.region = NoneV
  /\ last.ps.name = screen.shown
  /\ screen.present[1]
  /\ ~screen.present[2]
  /\ res.kind = "return"
  /\ res.val = TrueV

\* C5 (as claimed): whenever find returns a Location for a Pattern, it is the
\* first element of what find_all returns for the same pattern, region and
\* screen.
C5_FindIsFirstOfFindAll ==
  (last.op = "find" /\ last.ps.type = "Pattern" /\ last.fault = "none" /\ res.kind = "return")
  => LET fa == find_all(last.ps, last.region, screen, highlightOn, "none")
     IN fa.kind = "return" /\ res.val = LocationV(fa.val.items[1])

\* C5 (amended): whenever find returns for a Pattern, it returns the first
\* element of the single-mode (best-first) ordering of the matcher; find_all
\* for the same pattern, region and screen returns too, that Location is one of
\* those find_all returns, and it is find_all's first element when find_all
\* returns exactly one Location.
C5_FindIsBestAmongFindAll ==
  (last.op = "find" /\ last.ps.type = "Pattern" /\ last.fault = "none" /\ res.kind = "return")
  => LET fa == find_all(last.ps, last.region, screen, highlightOn, "none")
         single == match_template(last.ps, last.region, "SINGLE", screen)
     IN /\ fa.kind = "return"
        /\ res.val = LocationV(single[1])
        /\ res.val.items[1] \in Range(fa.val.items)
        /\ Len(fa.val.items) = 1 => res.val = LocationV(fa.val.items[1])

C5_Witness ==
  /\ last.op = "find"
  /\ last.fault = "none"
  /\ last.region = NoneV
  /\ res.kind = "return"
  /\ Len(screen.scanOrder) >= 2
  /\ screen.bestFirst[1] # screen.scanOrder[1]

\* C6 (as claimed): when the blocking matcher finds the Pattern within the
\* timeout, verify returns True whether or not highlighting is enabled, and
\* with highlighting enabled the highlight has been rendered before that.
C6_VerifyFoundReturnsTrue ==
  (/\ last.op = "verify"
   /\ last.ps.type = "Pattern"
   /\ last.fault = "none"
   /\ Len(Events("image_find")) = 1
   /\ Events("image_find")[1].ret # NoneV)
  => /\ res.kind = "return"
     /\ res.val = TrueV
     /\ highlightOn => Len(Events("render")) = 1

\* C7 (as claimed): every call of verify, exists and wait_vanish on a Pattern
\* or text target makes exactly one blocking collaborator call, that call gets
\* the caller's timeout (the default one when omitted), and the call ends in
\* terminal success or terminal timeout.  Stated for calls made with
\* highlighting disabled.
C7_SinglePassWithTimeout ==
  (/\ last.op \in {"verify", "exists", "wait_vanish"}
   /\ ValidTarget
   /\ last.fault = "none"
   /\ ~highlightOn)
  => /\ Len(Blocking) = 1
     /\ Governing(Blocking[1]) = Effective(last.timeout)
     /\ \/ res.kind = "return" /\ res.val = TrueV
        \/ RaisedFindError(res)
        \/ last.op = "exists" /\ res.kind = "return" /\ res.val = FalseV

\* C8: no operation but exists recovers from an error, and exists only from
\* FindError: an error a collaborator raises during any call reaches the caller
\* as raised, and during exists every error of verify other than FindError
\* (the one of the highlight step included) reaches the caller unchanged;
\* exists returns False only for a FindError.
C8_OnlyExistsRecoversFindError ==
  /\ (\/ last.fault = "search" /\ last.op \in {"find", "find_all", "wait_vanish"}
              /\ last.ps.type = "Pattern"
      \/ last.fault = "search" /\ last.op \in {"verify", "exists"} /\ ValidTarget
      \/ last.fault = "highlighter" /\ Len(Events("render")) = 1)
     => /\ res.kind = "raise"
        /\ res.err = "RuntimeError"
        /\ res.msg = <<res.trace[Len(res.trace)].call>>
  /\ last.op = "exists"
     => LET v == verify(last.ps, last.timeout, last.region, screen, highlightOn, last.fault)
        IN /\ (v.kind = "raise" /\ v.err # "FindError") => res = v
           /\ (res.kind = "return" /\ res.val = FalseV) => RaisedFindError(v)

C8_Witness ==
  /\ last.op = "exists"
  /\ last.fault = "search"
  /\ last.ps.type = "Pattern"
  /\ res.kind = "raise"
  /\ res.err = "RuntimeError"

\* C9: find and find_all on a Pattern call the matcher exactly once (find in
\* SINGLE mode, find_all in MULTIPLE mode) and make no polling call; the
\* highlight is rendered exactly when the matcher returned at least one match
\* and highlighting is enabled, it draws every returned match, and its render
\* and its sleep are done before the result is returned; with zero matches
\* nothing is drawn or rendered before FindError is raised.
C9_OnePassThenHighlight ==
  (last.op \in {"find", "find_all"} /\ last.ps.type = "Pattern" /\ last.fault = "none")
  => LET tr == res.trace
         m == Events("match_template")
         found == m[1].ret.items
         rendered == Len(Events("render")) > 0
     IN /\ Len(m) = 1
        /\ tr[1] = m[1]
        /\ m[1].mode = (IF last.op = "find" THEN "SINGLE" ELSE "MULTIPLE")
        /\ Len(Blocking) = 0
        /\ rendered <=> (Len(found) > 0 /\ highlightOn)
        /\ rendered =>
             /\ [i \in 1..Len(Drawn) |-> Drawn[i].arg] = found
             /\ res.kind = "return"
             /\ tr[Len(tr) - 1] = Ev("render", "", highlight_duration, NoneV)
             /\ tr[Len(tr)] = Ev("sleep", "", highlight_duration, NoneV)
        /\ Len(found) = 0 => (Len(tr) = 1 /\ RaisedFindError(res))

C9_Witness ==
  /\ last.op = "find_all"
  /\ last.fault = "none"
  /\ highlightOn
  /\ res.kind = "return"
  /\ Len(res.val.items) = 2
  /\ Len(Drawn) = 2

====
